---- MODULE Spec2Model ----
(***************************************************************************)
(* Polymarket FastLoop Trader (src/main.py): the decision/execution cycle   *)
(* run_cycle, the spend ledger, the run-state file and the server loop.     *)
(*                                                                          *)
(* Units.  Money is counted in steps of 1/Unit dollar, prices in steps of   *)
(* 1/PriceScale, probabilities in thousandths, momentum in tenths of a      *)
(* percent, volume ratios in hundredths.  The Python floats are modelled by *)
(* exact arithmetic on these grids: every comparison of the source is       *)
(* cross-multiplied, so no rounding is introduced by the model.  (IEEE      *)
(* rounding can move a computed ev by about 1e-16; the model's ev = 0 is    *)
(* the exact value.)                                                        *)
(*                                                                          *)
(* Environment.  Files are read and written reliably and only by this       *)
(* program (the server process and the --reset command line run).  HTTP     *)
(* collaborators answer with any of the enumerated results or fail.         *)
(***************************************************************************)
EXTENDS Integers, Sequences, FiniteSets, TLC

\* ---------------------------------------------------------------- bounds
Unit == 2            \* money steps per dollar
MaxPosition == 3     \* largest configured max_position, in money steps
MaxCap == 5          \* largest configured max_total_spend, in money steps
MaxCycles == 2       \* cycles started in one behaviour
MaxResets == 1       \* --reset runs in one behaviour
MaxLedgerOps == 6    \* ledger calls in one behaviour of LedgerSpec
MaxAmount == 5       \* largest amount passed to save_total_spent in LedgerSpec
MaxMomentum == 45    \* largest |momentum_pct| drawn in EVSpec, tenths of a percent
MaxListing == 4      \* longest listing drawn in MarketsSpec
MaxMove == 30        \* largest move of the latest close drawn in SignalSpec, price steps

\* ---------------------------------------------------------- configuration
PriceScale == 2 * 100             \* price steps per 1.0 (half a cent)
\* An optional value is a sequence of length 0 (nothing: Python's None, a
\* missing file) or 1 (the value).
None == <<>>
NoFile == <<>>
Some(x) == <<x>>

min_position == 1 * Unit          \* DEFAULT_CONFIG["min_position"] = 1.0
min_momentum_pct == 5             \* 0.5 percent, in tenths of a percent
min_time_remaining == 60          \* seconds
polymarket_fee == 10              \* 0.10, in percent
volume_floor == 50                \* 0.5, in hundredths

Min(a, b) == IF a <= b THEN a ELSE b
Abs(a) == IF a < 0 THEN -a ELSE a

\* -------------------------------------------------------------- ledger
\* load_total_spent: a missing file reads as 0.0.
load_total_spent(file) == IF file = NoFile THEN 0 ELSE file[1]

\* new_total computed as the amount alone (the current total is dropped).
new_total_overwrite(current, amount_to_add) == amount_to_add

\* new_total computed with the wrong sign.
new_total_subtract(current, amount_to_add) == current - amount_to_add

\* new_total = current + amount_to_add
new_total(current, amount_to_add) == current + amount_to_add

\* save_total_spent: the new content of the spend file, which is also the
\* value returned.
save_total_spent(file, amount_to_add) ==
    new_total(load_total_spent(file), amount_to_add)

\* ---------------------------------------------------------- calculate_ev
\* Denominator of the ev numerator: thousandths x price steps x percent.
EVDen == 1000 * PriceScale * 100

\* raw_extra computed on the signed momentum (abs left out).
raw_extra_signed(momentum_pct) == Min(momentum_pct * 5, 200)

\* raw_extra = min(abs(momentum_pct) * 0.05, 0.20), in thousandths.
raw_extra(momentum_pct) == Min(Abs(momentum_pct) * 5, 200)

\* The price guard with a strict comparison.
too_expensive_strict(token_price) == token_price * 100 > 95 * PriceScale

\* token_price >= 0.95
too_expensive(token_price) == token_price * 100 >= 95 * PriceScale

\* calculate_ev(yes_price, direction, momentum_pct) -> (ev, prob, outcome):
\* ev is the numerator over EVDen, so the sentinel -1 is -EVDen.
calculate_ev(yes_price, direction, momentum_pct) ==
    LET prob_up == 500 + raw_extra(momentum_pct)
        up == direction = "up"
        prob_acierto == IF up THEN prob_up ELSE 1000 - prob_up
        token_price == IF up THEN yes_price ELSE PriceScale - yes_price
        outcome == IF up THEN "YES" ELSE "NO"
        prob_falla == 1000 - prob_acierto
        ganancia_neta == (PriceScale - token_price) * (100 - polymarket_fee)
    IN  IF too_expensive(token_price)
        THEN [ev |-> -EVDen, prob |-> prob_acierto, outcome |-> outcome,
              token_price |-> token_price]
        ELSE [ev |-> prob_acierto * ganancia_neta - prob_falla * token_price * 100,
              prob |-> prob_acierto, outcome |-> outcome,
              token_price |-> token_price]

\* ------------------------------------------------------ get_crypto_momentum
\* The direction that also counts a flat window as "up".
direction_of_flat_up(momentum_pct) == IF momentum_pct >= 0 THEN "up" ELSE "down"

\* "up" if momentum_pct > 0 else "down"
direction_of(momentum_pct) == IF momentum_pct > 0 THEN "up" ELSE "down"

\* The signal dict of get_crypto_momentum (symbol and prices left out).
Signal(momentum_pct, volume_ratio) ==
    [momentum_pct |-> momentum_pct, direction |-> direction_of(momentum_pct),
     volume_ratio |-> volume_ratio]

\* The oldest close of the window in the candles drawn: 1000 price steps,
\* so that a move of one price step is a momentum of 0.1 percent, exactly.
BasePrice == 10 * 100

\* What the candle request can give: nothing (the request or the parsing
\* raised), or the candles: how many came, the oldest and the latest close,
\* and the volume ratio they work out to.
Klines(candles, price_then, price_now, volume_ratio) ==
    [candles |-> candles, price_then |-> price_then, price_now |-> price_now,
     volume_ratio |-> volume_ratio]

\* One candle only; then six candles with +1.0% and -2.0% on normal volume,
\* +0.3% on normal volume, +1.0% on thin volume.
ResponseChoices ==
    {None, Some(Klines(1, BasePrice, BasePrice, 100)),
     Some(Klines(6, BasePrice, BasePrice + 10, 115)),
     Some(Klines(6, BasePrice, BasePrice - 20, 115)),
     Some(Klines(6, BasePrice, BasePrice + 3, 115)),
     Some(Klines(6, BasePrice, BasePrice + 10, 40))}

\* momentum_pct = (price_now - price_then) / price_then * 100, in tenths of
\* a percent (the closes drawn make the division exact).
momentum_of(price_now, price_then) ==
    ((price_now - price_then) * 1000) \div price_then

\* get_crypto_momentum: None on any exception and on fewer than 2 candles,
\* else the signal.
get_crypto_momentum(response) ==
    IF response = None THEN None
    ELSE IF response[1].candles < 2 THEN None
    ELSE Some(Signal(momentum_of(response[1].price_now, response[1].price_then),
                     response[1].volume_ratio))

\* What a signal fetch can give.
SignalChoices == {get_crypto_momentum(response) : response \in ResponseChoices}

\* --------------------------------------------------------- analyze_market
\* What pricing a market gives: whether it lists a YES token at all (else no
\* lookup is made) and what get_token_price returned: None (a failure) or a
\* price, here 0.0, 0.48, 0.625 or 0.96.
PriceChoices == {None, Some(0), Some(96), Some(125), Some(192)}

Lookups(has_yes) ==
    IF has_yes THEN {[yes_token |-> TRUE, price |-> p] : p \in PriceChoices}
    ELSE {[yes_token |-> FALSE, price |-> None]}

\* yes_price = 0.50 unless the lookup gave a truthy price (if p: yes_price = p).
yes_price_of(lookup) ==
    IF lookup.yes_token /\ lookup.price # None /\ lookup.price[1] # 0
    THEN lookup.price[1]
    ELSE PriceScale \div 2

\* The ev test that lets ev = 0 through.
no_edge_lax(ev) == ev < 0

\* if ev <= 0: return None
no_edge(ev) == ev <= 0

\* The two filters of analyze_market: the volume ratio is at least 0.5 and
\* |momentum| is at least min_momentum_pct.
passes_filters(signal) ==
    /\ ~(signal.volume_ratio < volume_floor)
    /\ ~(Abs(signal.momentum_pct) < min_momentum_pct)

\* analyze_market(market, signal, config): None, or the opportunity dict
\* (market, razon and signal left out: the caller holds them).
analyze_market(lookup, signal) ==
    LET yes_price == yes_price_of(lookup)
        mom_pct == Abs(signal.momentum_pct)
        r == calculate_ev(yes_price, signal.direction, mom_pct)
    IN  IF ~passes_filters(signal) THEN None
        ELSE IF no_edge(r.ev) THEN None
        ELSE Some([outcome |-> r.outcome, ev |-> r.ev, prob |-> r.prob,
                   yes_price |-> yes_price])

\* ---------------------------------------------------------- execute_trade
\* What the broker path of a live order can do: run through, or raise
\* somewhere in the try block (the SDK import, the client, the order).
BrokerChoices == {"ok", "error"}

\* execute_trade(market, outcome, amount, live) -> (success, tx_hash_or_error);
\* token_found: the market lists a token for the outcome.
execute_trade(private_key, is_live, token_found, broker) ==
    IF ~private_key THEN [success |-> FALSE, tx |-> "Missing private key"]
    ELSE IF ~is_live THEN [success |-> TRUE, tx |-> "dry_run"]
    ELSE IF broker = "error" THEN [success |-> FALSE, tx |-> "str(e)"]
    ELSE IF ~token_found THEN [success |-> FALSE, tx |-> "Token not found"]
    ELSE [success |-> TRUE, tx |-> "tx_hash"]

\* ------------------------------------------------------- get_fast_markets
\* The markets the discovery API can list: the assets their question
\* mentions, whether it reads "up or down", the 15-minute qualifier, the
\* seconds left to the end time (None: no parsable end time) and the tokens
\* field: the outcomes that have a token, or None where the listing carries
\* "tokens": null.
Market(mentions, up_or_down, m15, left, tokens) ==
    [mentions |-> mentions, up_or_down |-> up_or_down, m15 |-> m15,
     left |-> left, tokens |-> tokens]

Catalogue ==
    [id \in 1..8 |->
       CASE id = 1 -> Market({"BTC"}, TRUE, FALSE, Some(300), Some({"YES", "NO"}))
         [] id = 2 -> Market({"BTC"}, TRUE, TRUE, Some(900), Some({"YES", "NO"}))
         [] id = 3 -> Market({"BTC"}, TRUE, FALSE, None, Some({"YES", "NO"}))
         [] id = 4 -> Market({"BTC"}, TRUE, FALSE, Some(30), Some({"YES", "NO"}))
         [] id = 5 -> Market({"ETH"}, TRUE, FALSE, Some(120), Some({"YES", "NO"}))
         [] id = 6 -> Market({"BTC"}, FALSE, FALSE, Some(600), Some({"YES", "NO"}))
         [] id = 7 -> Market({"BTC", "ETH"}, TRUE, FALSE, Some(300), Some({}))
         [] id = 8 -> Market({"BTC"}, TRUE, FALSE, Some(100), None)]

\* for t in market.get("tokens", []): a null tokens field cannot be iterated
\* (TypeError).
tokens_iterable(id) == Catalogue[id].tokens # None

\* Some t in the market's tokens has t["outcome"].upper() == outcome.
has_token(id, outcome) ==
    tokens_iterable(id) /\ outcome \in Catalogue[id].tokens[1]

\* The listings a scan can receive (the empty one is also what a failed
\* request leaves).
Listings == {<<>>, <<4, 6, 1>>, <<3, 1, 5, 2, 7>>, <<5, 4>>, <<1, 8>>}

\* asset in q.upper() and "UP OR DOWN" in q.upper()
matches(asset, id) == asset \in Catalogue[id].mentions /\ Catalogue[id].up_or_down

\* The time floor that also drops a market without a known end time.
too_late_or_unknown(id) ==
    Catalogue[id].left = None \/ Catalogue[id].left[1] < min_time_remaining

\* time_remaining is not None and time_remaining < min_time_remaining
too_late(id) ==
    Catalogue[id].left # None /\ Catalogue[id].left[1] < min_time_remaining

\* The sort key: x["time_remaining"] or 0
sort_key(id) == IF Catalogue[id].left = None THEN 0 ELSE Catalogue[id].left[1]

\* The markets of the listing that pass the filters, in listing order.
RECURSIVE fast(_, _)
fast(asset, listing) ==
    IF listing = <<>> THEN <<>>
    ELSE LET id == Head(listing)
             rest == fast(asset, Tail(listing))
         IN  IF matches(asset, id) /\ ~too_late(id) THEN <<id>> \o rest ELSE rest

\* The list left in listing order.
no_sort(s) == s

\* list.sort(key, reverse=True): stable, descending.
RECURSIVE sort_desc(_)
sort_desc(s) ==
    IF s = <<>> THEN <<>>
    ELSE LET sorted == sort_desc(SubSeq(s, 1, Len(s) - 1))
             x == s[Len(s)]
             k == Cardinality({i \in 1..Len(sorted) : sort_key(sorted[i]) >= sort_key(x)})
         IN  SubSeq(sorted, 1, k) \o <<x>> \o SubSeq(sorted, k + 1, Len(sorted))

\* get_fast_markets(asset): the ids of the markets returned, in order.
get_fast_markets(asset, listing) == sort_desc(fast(asset, listing))

\* markets[:3]
top3(ms) == SubSeq(ms, 1, Min(3, Len(ms)))

\* -------------------------------------------------------------- run state
\* load_state's default when the state file is missing.
default_state == [trades |-> <<>>, last_run |-> None, status |-> "stopped"]

\* load_state (started_at and updated_at are left out: nothing reads them).
load_state(file) == IF file = NoFile THEN default_state ELSE file[1]

\* add_trade that writes the new record over the log.
add_trade_overwrite(state, market_id, outcome, amount, clock) ==
    [state EXCEPT !.trades = <<[amount |-> amount, timestamp |-> clock]>>]

\* add_trade: the state with one record appended to its trades.  The record
\* keeps the amount and the timestamp (the clock when it is written);
\* market_id, outcome, ev and tx_hash are payload that nothing in the program
\* reads back.
add_trade(state, market_id, outcome, amount, clock) ==
    [state EXCEPT !.trades = Append(@, [amount |-> amount, timestamp |-> clock])]

\* The closing write of run_cycle with last_run left as it was.
persist_status_only(state, timestamp) == [state EXCEPT !.status = "running"]

\* state["last_run"] = results["timestamp"]; state["status"] = "running"
persist(state, timestamp) ==
    [state EXCEPT !.last_run = Some(timestamp), !.status = "running"]

\* ------------------------------------------------------------------ state
VARIABLES
    config,        \* DEFAULT_CONFIG: assets, max_position, max_total_spend
    live,          \* the --live flag / LIVE
    private_key,   \* whether POLYMARKET_PRIVATE_KEY is set
    spend_file,    \* total_spent.json: NoFile or Some(total_spent)
    state_file,    \* state.json: NoFile or Some(state)
    pc,            \* where the server process is
    now,           \* the clock: the number of cycles started
    resets,        \* the number of --reset runs so far
    results,       \* run_cycle's results dict (the last one, once returned)
    total_spent,   \* run_cycle's local: the total read by the budget check
    trade_amount,  \* run_cycle's local
    signals,       \* run_cycle's local: per asset, None or Some(signal)
    asset_idx,     \* the asset the outer loop is at
    markets,       \* markets[:3] of the asset being scanned
    market_idx,    \* the market the inner loop is at
    opportunity,   \* the opportunity being executed
    current,       \* save_total_spent's local
    calls,         \* per cycle: how often each collaborator was called
    last_exec,     \* the execute_trade call of the step just taken, if any
    last_analysis, \* the analyze_market call of the step just taken, if any
    ledger_ops,    \* LedgerSpec: ledger calls made
    ledger_sum,    \* LedgerSpec: the amounts saved since the last reset, added up
    ledger_ret,    \* LedgerSpec: what the last ledger call returned
    ev_in,         \* EVSpec: the arguments drawn
    ev_out,        \* EVSpec: what the call returned
    fm_in,         \* MarketsSpec: the asset asked for and the listing received
    fm_out,        \* MarketsSpec: what get_fast_markets returned
    sig_in,        \* SignalSpec: the answer to the candle request
    sig_out,       \* SignalSpec: what get_crypto_momentum returned
    hist           \* history: what the server loop did last, and what has
                   \* happened so far (see no_hist)

vars == <<config, live, private_key, spend_file, state_file, pc, now, resets,
          results, total_spent, trade_amount, signals, asset_idx, markets,
          market_idx, opportunity, current, calls, last_exec, last_analysis,
          ledger_ops, ledger_sum, ledger_ret, ev_in, ev_out, fm_in, fm_out,
          sig_in, sig_out, hist>>

config_vars == <<config, live, private_key>>
side_vars == <<ledger_ops, ledger_sum, ledger_ret, ev_in, ev_out, fm_in, fm_out,
               sig_in, sig_out>>
loop_vars == <<signals, asset_idx, markets, market_idx, opportunity>>

no_calls == [signal |-> 0, scan |-> 0, exec |-> 0, exec_ok |-> 0, ledger |-> 0,
             trade_log |-> 0]
\* The history before the server has started.  since: the last thing the
\* server process did outside run_cycle's body ("start": run_server wrote its
\* initial state; "cycle": run_cycle was called; "sleep": time.sleep
\* returned; "interrupt": the KeyboardInterrupt handler ran).  caught: the
\* loop has just slept after a cycle that raised.  stopped_seen: a cycle has
\* returned stopped = true and no --reset has run since.  torn: an interrupt
\* has landed between save_total_spent and add_trade.  overwritten:
\* save_total_spent has written over a total that changed after it read it.
\* untracked: the ledger started with a prior total that no --reset has
\* cleared yet.
no_hist == [since |-> "none", caught |-> FALSE, stopped_seen |-> FALSE,
            torn |-> FALSE, overwritten |-> FALSE, untracked |-> FALSE]

no_results == [timestamp |-> 0, live |-> FALSE, trades |-> <<>>, signals |-> <<>>,
               errors |-> <<>>, stopped |-> FALSE]

\* The configurations: one or two assets, and a spend cap that one whole
\* position reaches exactly (MaxPosition) or leaves a remainder under
\* (MaxCap - 1, MaxCap).
Configs ==
    [assets : {<<"BTC">>, <<"BTC", "ETH">>},
     max_position : {MaxPosition},
     max_total_spend : {MaxPosition, MaxCap - 1, MaxCap}]

InitSide ==
    /\ ledger_ops = 0 /\ ledger_sum = 0 /\ ledger_ret = None
    /\ ev_in = None /\ ev_out = None
    /\ fm_in = None /\ fm_out = None
    /\ sig_in = None /\ sig_out = None

InitLocals ==
    /\ results = no_results /\ total_spent = 0 /\ trade_amount = 0
    /\ signals = <<>> /\ asset_idx = 0 /\ markets = <<>> /\ market_idx = 0
    /\ opportunity = None /\ current = 0 /\ calls = no_calls
    /\ last_exec = None /\ last_analysis = None

\* The server about to start, with no state file yet, on a fresh deployment
\* (no spend file) or on a ledger that earlier runs have left at the cap.
Init ==
    /\ config \in Configs
    /\ live \in BOOLEAN
    /\ private_key \in BOOLEAN
    /\ spend_file \in {NoFile, Some(config.max_total_spend)}
    /\ state_file = NoFile
    /\ pc = "start" /\ now = 0 /\ resets = 0
    /\ InitLocals
    /\ hist = [no_hist EXCEPT !.untracked = (spend_file # NoFile)]
    /\ InitSide

\* ----------------------------------------------------------- budget check
\* The budget check with the minimum-position test left out.
budget_check_no_min(spent, max_total, max_pos) ==
    IF spent >= max_total THEN [stopped |-> TRUE, trade_amount |-> 0]
    ELSE [stopped |-> FALSE, trade_amount |-> Min(max_pos, max_total - spent)]

\* The budget check that never looks at the spend: the limit test is dropped
\* and the trade amount is max_position.
budget_check_ignore_spent(spent, max_total, max_pos) ==
    [stopped |-> max_pos < min_position, trade_amount |-> max_pos]

\* The budget check that looks at the ledger on the first cycle after a
\* server start only: every later cycle takes the spend as 0.
budget_check_at_start_only(spent, max_total, max_pos) ==
    LET seen == IF hist.since = "start" THEN spent ELSE 0
        amount == Min(max_pos, max_total - seen)
    IN  IF seen >= max_total THEN [stopped |-> TRUE, trade_amount |-> 0]
        ELSE [stopped |-> amount < min_position, trade_amount |-> amount]

\* The head of run_cycle: stop when total_spent >= max_total, else
\* trade_amount = min(max_position, disponible) and stop when it is below
\* min_position.  trade_amount is 0 where the code has not assigned it.
budget_check(spent, max_total, max_pos) ==
    IF spent >= max_total THEN [stopped |-> TRUE, trade_amount |-> 0]
    ELSE LET disponible == max_total - spent
             amount == Min(max_pos, disponible)
         IN  [stopped |-> amount < min_position, trade_amount |-> amount]

\* ------------------------------------------------------------ control flow
\* Where the outer loop goes after asset i: the next asset, or the closing
\* write once the assets are exhausted.
after_asset(i) ==
    IF i < Len(config.assets)
    THEN [pc |-> "scan", asset_idx |-> i + 1]
    ELSE [pc |-> "persist", asset_idx |-> 0]

\* An asset without a signal leaves the outer loop altogether.
after_no_signal_break(i) == [pc |-> "persist", asset_idx |-> 0]

\* "if not signal: continue": the outer loop goes on with the next asset.
after_no_signal(i) == after_asset(i)

\* A successful execution is committed whatever the mode.
commits_any_success(success, is_live) == success

\* "if success: if live:": the ledger and the trade log are written.
commits(success, is_live) == success /\ is_live

\* "break  # Solo un trade por ciclo": it leaves the inner loop over the
\* markets only, so the outer loop goes on with the next asset.
break_loop(i) == after_asset(i)

\* Leave the inner loop (exhausted or broken) and go on with the outer one.
LeaveMarkets(next) ==
    /\ pc' = next.pc
    /\ asset_idx' = next.asset_idx
    /\ markets' = <<>>
    /\ market_idx' = 0
    /\ opportunity' = None

\* An exception out of run_cycle that nothing catches: the process ends there.
RaiseExits ==
    /\ pc' = "exited"
    /\ results' = no_results /\ total_spent' = 0 /\ trade_amount' = 0
    /\ signals' = <<>> /\ asset_idx' = 0 /\ markets' = <<>> /\ market_idx' = 0
    /\ opportunity' = None /\ current' = 0 /\ calls' = no_calls
    /\ last_exec' = None /\ last_analysis' = None

\* An exception leaves run_cycle: its frame is gone and no result is returned.
\* run_server's "except Exception" logs it and the loop goes on.
Raise ==
    /\ pc' = "raised"
    /\ results' = no_results /\ total_spent' = 0 /\ trade_amount' = 0
    /\ signals' = <<>> /\ asset_idx' = 0 /\ markets' = <<>> /\ market_idx' = 0
    /\ opportunity' = None /\ current' = 0 /\ calls' = no_calls
    /\ last_exec' = None /\ last_analysis' = None

\* "continue" in the inner loop: the next of markets[:3], if any.
NextMarket ==
    IF market_idx < Len(markets)
    THEN /\ pc' = "evaluate"
         /\ market_idx' = market_idx + 1
         /\ opportunity' = None
         /\ UNCHANGED <<asset_idx, markets>>
    ELSE LeaveMarkets(after_asset(asset_idx))

\* ------------------------------------------------------------- run_server
\* A loop that does not wait for run_cycle to come back before it sleeps.
cycle_over_or_running(p) == p \notin {"start", "exited", "cycle"}

\* The run_cycle call of the loop has come back: it returned, or it raised
\* and the loop's "except Exception" caught it.
cycle_over(p) == p \in {"returned", "raised"}

\* run_server up to its loop: status = "running" is written.  A stopped
\* server can be started again.
RunServerStart ==
    /\ pc \in {"start", "exited"}
    /\ state_file' = Some([load_state(state_file) EXCEPT !.status = "running"])
    /\ pc' = "cycle"
    /\ hist' = [hist EXCEPT !.since = "start", !.caught = FALSE]
    /\ UNCHANGED <<config_vars, side_vars, loop_vars, spend_file, now, resets,
                   results, total_spent, trade_amount, current, calls,
                   last_exec, last_analysis>>

\* The loop drops what run_cycle returned (or logs what it raised), sleeps
\* (time.sleep(interval)) and is about to call run_cycle again.
Sleep ==
    /\ cycle_over(pc)
    /\ pc' = "cycle"
    /\ hist' = [hist EXCEPT !.since = "sleep", !.caught = (pc = "raised")]
    /\ results' = no_results /\ total_spent' = 0 /\ trade_amount' = 0
    /\ calls' = no_calls /\ last_exec' = None /\ last_analysis' = None
    /\ UNCHANGED <<config_vars, side_vars, loop_vars, spend_file, state_file,
                   now, resets, current>>

\* KeyboardInterrupt anywhere in the loop: the cycle in progress, if any, is
\* abandoned, status = "stopped" is written and the process ends.
Interrupt ==
    /\ pc \notin {"start", "exited"}
    /\ hist' = [hist EXCEPT !.since = "interrupt", !.caught = FALSE,
                            !.torn = @ \/ pc = "add_trade"]
    /\ state_file' = Some([load_state(state_file) EXCEPT !.status = "stopped"])
    /\ pc' = "exited"
    /\ results' = no_results /\ total_spent' = 0 /\ trade_amount' = 0
    /\ signals' = <<>> /\ asset_idx' = 0 /\ markets' = <<>> /\ market_idx' = 0
    /\ opportunity' = None /\ current' = 0 /\ calls' = no_calls
    /\ last_exec' = None /\ last_analysis' = None
    /\ UNCHANGED <<config_vars, side_vars, spend_file, now, resets>>

\* python main.py --reset, run from a shell at any time.  A reset that lands
\* while the server is between two accesses to the spend file has the effect
\* of one landing right before the next access (the steps in between do not
\* touch the file), so it is taken there: before the budget check reads the
\* file, and on either side of save_total_spent's read.
Reset ==
    /\ resets < MaxResets
    /\ pc \in {"start", "cycle", "ledger_read", "ledger_write", "exited"}
    /\ resets' = resets + 1
    /\ spend_file' = Some(0)
    /\ hist' = [hist EXCEPT !.stopped_seen = FALSE, !.untracked = FALSE]
    /\ UNCHANGED <<config_vars, side_vars, loop_vars, state_file, pc, now,
                   results, total_spent, trade_amount, current, calls,
                   last_exec, last_analysis>>

\* -------------------------------------------------------------- run_cycle
\* The head of run_cycle: the results dict, the budget check and its two
\* early returns.
BudgetCheckWithin(limit) ==
    /\ pc = "cycle"
    /\ now < limit
    /\ now' = now + 1
    /\ LET spent == load_total_spent(spend_file)
           bc == budget_check(spent, config.max_total_spend, config.max_position)
       IN  /\ total_spent' = spent
           /\ trade_amount' = bc.trade_amount
           /\ results' = [no_results EXCEPT !.timestamp = now + 1, !.live = live,
                                            !.stopped = bc.stopped]
           /\ pc' = IF bc.stopped THEN "returned" ELSE "signals"
           /\ hist' = [hist EXCEPT !.since = "cycle", !.caught = FALSE,
                                   !.stopped_seen = @ \/ bc.stopped]
    /\ calls' = no_calls
    /\ last_exec' = None
    /\ last_analysis' = None
    /\ UNCHANGED <<config_vars, side_vars, loop_vars, spend_file, state_file,
                   resets, current>>

BudgetCheck == BudgetCheckWithin(MaxCycles)

\* get_multi_asset_signals: one fetch per configured asset, each giving a
\* signal or nothing; results["signals"] keeps the ones that came.
SignalFetch ==
    /\ pc = "signals"
    /\ \E fetched \in [1..Len(config.assets) -> SignalChoices] :
          /\ signals' = fetched
          /\ results' = [results EXCEPT !.signals =
                [i \in {j \in 1..Len(config.assets) : fetched[j] # None} |->
                    fetched[i][1]]]
    /\ calls' = [calls EXCEPT !.signal = @ + Len(config.assets)]
    /\ pc' = "scan"
    /\ asset_idx' = 1
    /\ UNCHANGED <<config_vars, side_vars, spend_file, state_file, now, resets,
                   total_spent, trade_amount, markets, market_idx, opportunity,
                   current, last_exec, last_analysis, hist>>

\* One turn of the outer loop: an asset without a signal is skipped; else
\* its markets are listed, and an empty list goes on to the next asset.
MarketScan ==
    /\ pc = "scan"
    /\ IF signals[asset_idx] = None
       THEN /\ LeaveMarkets(after_no_signal(asset_idx))
            /\ UNCHANGED calls
       ELSE \E listing \in Listings :
              LET found == get_fast_markets(config.assets[asset_idx], listing)
              IN  /\ calls' = [calls EXCEPT !.scan = @ + 1]
                  /\ IF found = <<>>
                     THEN LeaveMarkets(after_asset(asset_idx))
                     ELSE /\ markets' = top3(found)
                          /\ market_idx' = 1
                          /\ pc' = "evaluate"
                          /\ UNCHANGED <<asset_idx, opportunity>>
    /\ UNCHANGED <<config_vars, side_vars, spend_file, state_file, now, resets,
                   results, total_spent, trade_amount, signals, current, hist>>
    /\ last_exec' = None /\ last_analysis' = None

\* One turn of the inner loop up to the decision: analyze_market prices the
\* market and computes its ev; without an opportunity the loop continues.
\* A tokens field that cannot be iterated raises out of analyze_market and
\* out of run_cycle.
Evaluate ==
    /\ pc = "evaluate"
    /\ IF ~tokens_iterable(markets[market_idx])
       THEN Raise
       ELSE /\ \E lookup \in Lookups(has_token(markets[market_idx], "YES")) :
                  LET signal == signals[asset_idx][1]
                      found == analyze_market(lookup, signal)
                      ev == calculate_ev(yes_price_of(lookup), signal.direction,
                                         Abs(signal.momentum_pct)).ev
                      call == [ev |-> ev, result |-> found, lookup |-> lookup,
                               yes_price |-> yes_price_of(lookup),
                               evaluated |-> passes_filters(signal)]
                  IN  /\ last_analysis' = Some(call)
                      /\ IF found = None
                         THEN NextMarket
                         ELSE /\ opportunity' = found
                              /\ pc' = "execute"
                              /\ UNCHANGED <<asset_idx, markets, market_idx>>
            /\ last_exec' = None
            /\ UNCHANGED <<results, total_spent, trade_amount, signals, current,
                           calls>>
    /\ UNCHANGED <<config_vars, side_vars, spend_file, state_file, now, resets,
                   hist>>

\* The inner loop after an opportunity: execute_trade is called.  A failure
\* is recorded and the loop continues with the next market; a dry-run
\* success is recorded and breaks the inner loop; a live success goes on to
\* the ledger.
Execute ==
    /\ pc = "execute"
    /\ \E broker \in BrokerChoices :
          LET r == execute_trade(private_key, live,
                     has_token(markets[market_idx], opportunity[1].outcome),
                     broker)
          IN  /\ last_exec' = Some([live |-> live, result |-> r])
              /\ calls' = [calls EXCEPT !.exec = @ + 1,
                                        !.exec_ok = IF r.success THEN @ + 1 ELSE @]
              /\ IF ~r.success
                 THEN /\ results' = [results EXCEPT !.errors = Append(@, r.tx)]
                      /\ NextMarket
                 ELSE IF commits(r.success, live)
                 THEN /\ pc' = "ledger_read"
                      /\ UNCHANGED <<results, asset_idx, markets, market_idx,
                                     opportunity>>
                 ELSE /\ results' = [results EXCEPT !.trades =
                            Append(@, [asset |-> config.assets[asset_idx],
                                       market_id |-> markets[market_idx],
                                       outcome |-> opportunity[1].outcome,
                                       amount |-> trade_amount])]
                      /\ LeaveMarkets(break_loop(asset_idx))
    /\ last_analysis' = None
    /\ UNCHANGED <<config_vars, side_vars, spend_file, state_file, now, resets,
                   total_spent, trade_amount, signals, current, hist>>

\* save_total_spent, first half: current = load_total_spent()
LedgerRead ==
    /\ pc = "ledger_read"
    /\ current' = load_total_spent(spend_file)
    /\ pc' = "ledger_write"
    /\ UNCHANGED <<config_vars, side_vars, loop_vars, spend_file, state_file,
                   now, resets, results, total_spent, trade_amount, calls, hist>>
    /\ last_exec' = None /\ last_analysis' = None

\* save_total_spent, second half: the new total is written (with its
\* timestamp, in one file) and returned.
LedgerWrite ==
    /\ pc = "ledger_write"
    /\ spend_file' = Some(new_total(current, trade_amount))
    /\ calls' = [calls EXCEPT !.ledger = @ + 1]
    /\ current' = 0
    /\ pc' = "add_trade"
    /\ hist' = [hist EXCEPT !.overwritten =
                                @ \/ load_total_spent(spend_file) # current]
    /\ UNCHANGED <<config_vars, side_vars, loop_vars, state_file, now, resets,
                   results, total_spent, trade_amount>>
    /\ last_exec' = None /\ last_analysis' = None

\* add_trade, then the entry in results["trades"] and the break.
AddTrade ==
    /\ pc = "add_trade"
    /\ state_file' = Some(add_trade(load_state(state_file), markets[market_idx],
                                    opportunity[1].outcome, trade_amount, now))
    /\ results' = [results EXCEPT !.trades =
          Append(@, [asset |-> config.assets[asset_idx],
                     market_id |-> markets[market_idx],
                     outcome |-> opportunity[1].outcome,
                     amount |-> trade_amount])]
    /\ calls' = [calls EXCEPT !.trade_log = @ + 1]
    /\ LeaveMarkets(break_loop(asset_idx))
    /\ UNCHANGED <<config_vars, side_vars, spend_file, now, resets, total_spent,
                   trade_amount, signals, current, hist>>
    /\ last_exec' = None /\ last_analysis' = None

\* "Guardar estado": last_run and status are written and run_cycle returns.
Persist ==
    /\ pc = "persist"
    /\ state_file' = Some(persist(load_state(state_file), results.timestamp))
    /\ pc' = "returned"
    /\ signals' = <<>>
    /\ UNCHANGED <<config_vars, side_vars, spend_file, now, resets, results,
                   total_spent, trade_amount, asset_idx, markets, market_idx,
                   opportunity, current, calls, hist>>
    /\ last_exec' = None /\ last_analysis' = None

Next ==
    \/ RunServerStart
    \/ BudgetCheck
    \/ SignalFetch
    \/ MarketScan
    \/ Evaluate
    \/ Execute
    \/ LedgerRead
    \/ LedgerWrite
    \/ AddTrade
    \/ Persist
    \/ Sleep
    \/ Interrupt
    \/ Reset

Spec == Init /\ [][Next]_vars

\* ------------------------------------------------------------- LedgerSpec
\* The ledger driven directly, as the tests drive it: a sequence of
\* save_total_spent, load_total_spent and reset calls on a spend file that
\* starts missing or holding a prior total.
IdleProgram ==
    /\ config = [assets |-> <<"BTC">>, max_position |-> MaxPosition,
                 max_total_spend |-> MaxCap]
    /\ live = FALSE /\ private_key = FALSE
    /\ state_file = NoFile /\ pc = "start" /\ now = 0 /\ resets = 0
    /\ InitLocals
    /\ hist = no_hist

program_vars == <<config, live, private_key, state_file, pc, now, resets,
                  results, total_spent, trade_amount, signals, asset_idx,
                  markets, market_idx, opportunity, current, calls, last_exec,
                  last_analysis, hist>>

InitLedger ==
    /\ IdleProgram
    /\ spend_file \in {NoFile} \cup {Some(prior) : prior \in 0..MaxAmount}
    /\ ledger_sum = load_total_spent(spend_file)
    /\ ledger_ops = 0 /\ ledger_ret = None
    /\ ev_in = None /\ ev_out = None
    /\ fm_in = None /\ fm_out = None
    /\ sig_in = None /\ sig_out = None

CallSave ==
    /\ ledger_ops < MaxLedgerOps
    /\ \E amount \in 0..MaxAmount :
          /\ spend_file' = Some(save_total_spent(spend_file, amount))
          /\ ledger_ret' = Some(save_total_spent(spend_file, amount))
          /\ ledger_sum' = ledger_sum + amount
    /\ ledger_ops' = ledger_ops + 1
    /\ UNCHANGED <<program_vars, ev_in, ev_out, fm_in, fm_out, sig_in, sig_out>>

CallLoad ==
    /\ ledger_ops < MaxLedgerOps
    /\ ledger_ret' = Some(load_total_spent(spend_file))
    /\ ledger_ops' = ledger_ops + 1
    /\ UNCHANGED <<program_vars, spend_file, ledger_sum, ev_in, ev_out, fm_in,
                   fm_out, sig_in, sig_out>>

\* main --reset
CallReset ==
    /\ ledger_ops < MaxLedgerOps
    /\ spend_file' = Some(0)
    /\ ledger_sum' = 0
    /\ ledger_ret' = None
    /\ ledger_ops' = ledger_ops + 1
    /\ UNCHANGED <<program_vars, ev_in, ev_out, fm_in, fm_out, sig_in, sig_out>>

NextLedger ==
    \/ CallSave
    \/ CallLoad
    \/ CallReset

LedgerSpec == InitLedger /\ [][NextLedger]_vars

\* ----------------------------------------------------------------- EVSpec
\* calculate_ev called on arguments drawn from the price grid, the
\* directions (any string that is not "up" takes the other branch) and the
\* momenta up to MaxMomentum either way.
Directions == {"up", "down", "flat"}

InitEV ==
    /\ IdleProgram
    /\ spend_file = NoFile
    /\ ledger_ops = 0 /\ ledger_sum = 0 /\ ledger_ret = None
    /\ ev_in \in {Some([yes_price |-> y, direction |-> d, momentum_pct |-> m]) :
                    y \in 0..PriceScale, d \in Directions,
                    m \in -MaxMomentum..MaxMomentum}
    /\ ev_out = None
    /\ fm_in = None /\ fm_out = None
    /\ sig_in = None /\ sig_out = None

CallCalculateEV ==
    /\ ev_out = None
    /\ ev_out' = Some(calculate_ev(ev_in[1].yes_price, ev_in[1].direction,
                                   ev_in[1].momentum_pct))
    /\ UNCHANGED <<program_vars, spend_file, ledger_ops, ledger_sum, ledger_ret,
                   ev_in, fm_in, fm_out, sig_in, sig_out>>

NextEV == CallCalculateEV

EVSpec == InitEV /\ [][NextEV]_vars

\* ------------------------------------------------------------ MarketsSpec
\* The scan of run_cycle for one asset: get_fast_markets called for either
\* asset on any listing of up to MaxListing of the catalogue's markets, in
\* any order, repeats included, and markets[:3] taken of what it returns.
ListingsUpTo(n) == UNION {[1..k -> DOMAIN Catalogue] : k \in 0..n}

InitMarkets ==
    /\ IdleProgram
    /\ spend_file = NoFile
    /\ ledger_ops = 0 /\ ledger_sum = 0 /\ ledger_ret = None
    /\ ev_in = None /\ ev_out = None
    /\ sig_in = None /\ sig_out = None
    /\ fm_in \in {Some([asset |-> a, listing |-> l]) :
                    a \in {"BTC", "ETH"}, l \in ListingsUpTo(MaxListing)}
    /\ fm_out = None

CallGetFastMarkets ==
    /\ fm_out = None
    /\ fm_out' = Some(get_fast_markets(fm_in[1].asset, fm_in[1].listing))
    /\ markets' = top3(get_fast_markets(fm_in[1].asset, fm_in[1].listing))
    /\ UNCHANGED <<config_vars, state_file, pc, now, resets, results,
                   total_spent, trade_amount, signals, asset_idx, market_idx,
                   opportunity, current, calls, last_exec, last_analysis, hist,
                   spend_file, ledger_ops, ledger_sum, ledger_ret, ev_in, ev_out,
                   fm_in, sig_in, sig_out>>

NextMarkets == CallGetFastMarkets

MarketsSpec == InitMarkets /\ [][NextMarkets]_vars

\* ------------------------------------------------------------- SignalSpec
\* get_crypto_momentum called on any answer to the candle request: a
\* failure, or one or six candles whose latest close lies up to MaxMove price
\* steps either side of the oldest, on thin or normal volume.  sig_out holds
\* the returned value once the call is made.
InitSignal ==
    /\ IdleProgram
    /\ spend_file = NoFile
    /\ ledger_ops = 0 /\ ledger_sum = 0 /\ ledger_ret = None
    /\ ev_in = None /\ ev_out = None
    /\ fm_in = None /\ fm_out = None
    /\ sig_in \in {None} \cup
                   {Some(Klines(c, BasePrice, BasePrice + d, v)) :
                      c \in {1, 6}, d \in -MaxMove..MaxMove, v \in {40, 115}}
    /\ sig_out = None

CallGetCryptoMomentum ==
    /\ sig_out = None
    /\ sig_out' = Some(get_crypto_momentum(sig_in))
    /\ UNCHANGED <<program_vars, spend_file, ledger_ops, ledger_sum, ledger_ret,
                   ev_in, ev_out, fm_in, fm_out, sig_in>>

NextSignal == CallGetCryptoMomentum

SignalSpec == InitSignal /\ [][NextSignal]_vars

\* --------------------------------------------------------------- LiveSpec
\* The server left to run in live mode: no interrupt and no --reset, and
\* every step of the sequential loop is eventually taken (the sleep returns,
\* the HTTP calls time out).  The cycles are counted up to LiveCycles, one
\* more than the trades of min_position that the largest cap has room for.
LiveCycles == (MaxCap \div min_position) + 1

InitLive == Init /\ live

\* A cycle has ended without a successful trade though the budget check let
\* it through: it returned with no trade recorded, or it raised.
cycle_without_trade ==
    \/ pc = "returned" /\ ~results.stopped /\ calls.trade_log = 0
    \/ pc = "raised"

LiveBudgetCheck == BudgetCheckWithin(LiveCycles)

\* The loop is followed for as long as every cycle let through has traded.
LiveSleep == ~cycle_without_trade /\ Sleep

NextLive ==
    \/ RunServerStart
    \/ LiveBudgetCheck
    \/ SignalFetch
    \/ MarketScan
    \/ Evaluate
    \/ Execute
    \/ LedgerRead
    \/ LedgerWrite
    \/ AddTrade
    \/ Persist
    \/ LiveSleep

LiveSpec == InitLive /\ [][NextLive]_vars /\ WF_vars(NextLive)

\* ================================================================ claims
\* C1: in one run_cycle call at most one trade is executed: execute_trade
\* succeeds at most once, the result's trades list has at most one entry and
\* the ledger is incremented at most once.
C1_AtMostOneTradePerCycle ==
    /\ calls.exec_ok <= 1
    /\ Len(results.trades) <= 1
    /\ calls.ledger <= 1

\* C2: the persisted total_spent never exceeds max_total_spend.
C2_SpendNeverExceedsCap ==
    load_total_spent(spend_file) <= config.max_total_spend

\* C3: a cycle that has recorded a live trade (ledger increment and trade
\* record) is one whose budget check read total_spent < max_total_spend and
\* whose trade amount min(max_position, cap - spent) was >= min_position.
C3_LiveTradeOnlyWithinBudget ==
    /\ (calls.ledger > 0 \/ calls.trade_log > 0) =>
          /\ total_spent < config.max_total_spend
          /\ trade_amount =
               Min(config.max_position, config.max_total_spend - total_spent)
          /\ trade_amount >= min_position
    /\ calls.trade_log > 0 =>
          /\ load_state(state_file).trades # <<>>
          /\ load_state(state_file).trades[Len(load_state(state_file).trades)].amount
               = trade_amount

C3_Witness ==
    /\ pc = "returned"
    /\ calls.ledger = 1 /\ calls.trade_log = 1
    /\ total_spent > 0

\* C4: a run_cycle call that read total_spent >= max_total_spend has
\* returned with stopped = true and has made no signal fetch, no market scan
\* and no execute_trade call.
C4_StoppedAtCapShortCircuits ==
    total_spent >= config.max_total_spend =>
        /\ pc = "returned"
        /\ results.stopped
        /\ calls.signal = 0 /\ calls.scan = 0 /\ calls.exec = 0

C4_Witness ==
    /\ pc = "returned"
    /\ total_spent >= config.max_total_spend
    /\ results.stopped

\* C5 as stated: every run_cycle call that has returned, whatever its
\* outcome, has written last_run = its timestamp and status = "running".
C5_EveryCycleWritesRunState ==
    pc = "returned" =>
        /\ load_state(state_file).last_run = Some(results.timestamp)
        /\ load_state(state_file).status = "running"

\* C5 amended: a run_cycle call that passed the budget check has written
\* last_run = its timestamp and status = "running" when it returns; a call
\* stopped by the budget check returns without writing the run state, so
\* last_run is not its timestamp.
C5_CompletedCycleWritesRunState ==
    pc = "returned" =>
        IF results.stopped
        THEN load_state(state_file).last_run # Some(results.timestamp)
        ELSE /\ load_state(state_file).last_run = Some(results.timestamp)
             /\ load_state(state_file).status = "running"

C5_Witness ==
    /\ pc = "returned"
    /\ ~results.stopped
    /\ results.errors # <<>>
    /\ Len(results.trades) = 1
    /\ load_state(state_file).last_run = Some(results.timestamp)

\* C6: execute_trade called with live = false returns (True, "dry_run"),
\* whether or not the signing credential is configured.
C6_DryRunAlwaysSucceeds ==
    (last_exec # None /\ ~last_exec[1].live) =>
        last_exec[1].result = [success |-> TRUE, tx |-> "dry_run"]

\* C7: from one state to the next the persisted total_spent never decreases,
\* except in a reset step, after which load_total_spent is exactly 0.
C7_SpentOnlyDecreasesByReset ==
    [][/\ resets' = resets =>
            load_total_spent(spend_file') >= load_total_spent(spend_file)
       /\ resets' # resets => load_total_spent(spend_file') = 0]_vars

C7_Witness ==
    /\ resets > 0
    /\ spend_file = Some(0)
    /\ load_state(state_file).trades # <<>>

\* C8: the ledger accumulates: load_total_spent gives the prior total (0 for
\* a missing file) plus every amount saved since, and save_total_spent
\* returns that running total.
C8_LedgerAccumulates ==
    /\ load_total_spent(spend_file) = ledger_sum
    /\ ledger_ret # None => ledger_ret[1] = ledger_sum

C8_Witness ==
    /\ ledger_ops = 2
    /\ spend_file = Some(8)
    /\ ledger_ret = Some(8)

\* C9: analyze_market returns an opportunity only when the ev computed by
\* calculate_ev is > 0; with ev = 0 or ev < 0 (the -1 sentinel included) it
\* returns None, and execute_trade is reached only with an opportunity.
C9_OpportunityOnlyWithPositiveEV ==
    /\ last_analysis # None =>
          /\ last_analysis[1].result # None =>
                /\ last_analysis[1].ev > 0
                /\ last_analysis[1].result[1].ev = last_analysis[1].ev
          /\ last_analysis[1].ev <= 0 =>
                /\ last_analysis[1].result = None
                /\ pc # "execute"
    /\ pc = "execute" =>
          /\ last_analysis # None
          /\ opportunity # None
          /\ opportunity = last_analysis[1].result

C9_Witness ==
    /\ last_analysis # None
    /\ last_analysis[1].ev = 0
    /\ last_analysis[1].result = None
    /\ pc = "evaluate"

\* C10: when the direction-adjusted token price (yes_price for "up", else
\* 1 - yes_price) is >= 0.95, calculate_ev returns ev = -1, for every
\* direction and momentum.
C10_ExpensiveTokenGivesSentinel ==
    ev_out # None =>
        LET adjusted == IF ev_in[1].direction = "up"
                        THEN ev_in[1].yes_price
                        ELSE PriceScale - ev_in[1].yes_price
        IN  adjusted * 100 >= 95 * PriceScale => ev_out[1].ev = -EVDen

C10_Witness ==
    /\ ev_out # None
    /\ ev_in[1].direction = "down"
    /\ (PriceScale - ev_in[1].yes_price) * 100 = 95 * PriceScale
    /\ ev_in[1].momentum_pct = MaxMomentum
    /\ ev_out[1].ev = -EVDen

\* C11: calculate_ev with direction "up" returns outcome "YES" and
\* probability 0.50 + min(|momentum| * 0.05, 0.20), which is >= 0.5 and > 0.5
\* for a non-zero momentum; with any other direction it returns "NO" and 1
\* minus that value, which is <= 0.5 and < 0.5 for a non-zero momentum.
C11_DirectionGivesOutcomeAndProb ==
    ev_out # None =>
        LET m == ev_in[1].momentum_pct
            size == IF m < 0 THEN -m ELSE m
            extra == IF size * 5 <= 200 THEN size * 5 ELSE 200
        IN  IF ev_in[1].direction = "up"
            THEN /\ ev_out[1].outcome = "YES"
                 /\ ev_out[1].prob = 500 + extra
                 /\ ev_out[1].prob >= 500
                 /\ m # 0 => ev_out[1].prob > 500
            ELSE /\ ev_out[1].outcome = "NO"
                 /\ ev_out[1].prob = 1000 - (500 + extra)
                 /\ ev_out[1].prob <= 500
                 /\ m # 0 => ev_out[1].prob < 500

C11_Witness ==
    /\ ev_out # None
    /\ ev_in[1].direction = "flat"
    /\ ev_in[1].momentum_pct = -41
    /\ ev_out[1].outcome = "NO"
    /\ ev_out[1].prob = 300

\* C12: no exception escapes run_cycle: a started cycle never ends by
\* raising, whatever the collaborators return.
C12_NoExceptionEscapesRunCycle == pc # "raised"

\* C13: from one state to the next the persisted trade list never shrinks and
\* every record already in it stays unchanged at its position.
C13_TradeLogAppendOnly ==
    [][LET old == load_state(state_file).trades
           new == load_state(state_file').trades
       IN  /\ Len(new) >= Len(old)
           /\ SubSeq(new, 1, Len(old)) = old]_vars

C13_Witness ==
    /\ pc = "exited"
    /\ load_state(state_file).status = "stopped"
    /\ Len(load_state(state_file).trades) = 2
    /\ load_state(state_file).trades[1] # load_state(state_file).trades[2]

\* C14: no candidate is priced or evaluated after the cycle's first hit: an
\* analyze_market call is made only while execute_trade has not been called
\* in the cycle.
C14_FirstHitEndsEvaluation ==
    last_analysis # None => calls.exec = 0

\* C15: a failed execute_trade call appends one error and is the cycle's
\* last execute_trade call: when execute_trade is called the error list is
\* empty, and after a failed call it holds exactly that call's error.
C15_FailedTradeIsNotRetried ==
    last_exec # None =>
        IF last_exec[1].result.success
        THEN results.errors = <<>>
        ELSE results.errors = <<last_exec[1].result.tx>>

\* C16: of the markets of a listing that mention the asset and read "up or
\* down", get_fast_markets returns none whose known time remaining is below
\* min_time_remaining and every one whose end time is unknown.
C16_TimeFloorAndUnknownEndTime ==
    fm_out # None =>
        \A i \in DOMAIN fm_in[1].listing :
            LET id == fm_in[1].listing[i]
                returned == \E j \in DOMAIN fm_out[1] : fm_out[1][j] = id
            IN  (fm_in[1].asset \in Catalogue[id].mentions /\ Catalogue[id].up_or_down)
                => /\ (Catalogue[id].left # None
                        /\ Catalogue[id].left[1] < min_time_remaining) => ~returned
                   /\ Catalogue[id].left = None => returned

C16_Witness ==
    /\ fm_in = Some([asset |-> "BTC", listing |-> <<4, 3, 1>>])
    /\ fm_out = Some(<<1, 3>>)

\* C17: the yes price analyze_market passes to calculate_ev is in [0,1]: the
\* looked-up price when the lookup returned one, and 0.50 when it returned
\* nothing or the market has no YES token.
C17_YesPriceIsLookupOrDefault ==
    (last_analysis # None /\ last_analysis[1].evaluated) =>
        LET lookup == last_analysis[1].lookup
            yes_price == last_analysis[1].yes_price
        IN  /\ 0 <= yes_price /\ yes_price <= PriceScale
            /\ (lookup.yes_token /\ lookup.price # None) => yes_price = lookup.price[1]
            /\ (~lookup.yes_token \/ lookup.price = None)
                  => yes_price * 2 = PriceScale

\* C18: a cycle whose budget check read total_spent < max_total_spend but
\* min(max_position, max_total_spend - total_spent) < min_position has
\* returned stopped = true without a signal fetch or an execute_trade call.
C18_BelowMinPositionStops ==
    (/\ pc \in {"signals", "scan", "evaluate", "execute", "ledger_read",
                 "ledger_write", "persist", "returned"}
     /\ total_spent < config.max_total_spend
     /\ Min(config.max_position, config.max_total_spend - total_spent)
          < min_position)
    => /\ pc = "returned"
       /\ results.stopped
       /\ calls.signal = 0 /\ calls.exec = 0

C18_Witness ==
    /\ pc = "returned"
    /\ results.stopped
    /\ total_spent > 0
    /\ total_spent < config.max_total_spend
    /\ calls.signal = 0

\* C19: no step of a dry-run server changes the persisted total_spent or the
\* persisted trade list (a --reset apart), and a step that changes either
\* belongs to a live cycle in which execute_trade has succeeded.
C19_DryRunLeavesLedgerAndLog ==
    [][LET old == load_state(state_file).trades
           new == load_state(state_file').trades
       IN  resets' = resets =>
             /\ ~live => (spend_file' = spend_file /\ new = old)
             /\ (spend_file' # spend_file \/ new # old)
                   => (live /\ calls.exec_ok >= 1)]_vars

C19_Witness ==
    /\ ~live
    /\ pc = "returned"
    /\ calls.exec_ok = 1
    /\ Len(results.trades) = 1
    /\ spend_file = NoFile
    /\ load_state(state_file).trades = <<>>

\* C20: a failed fetch leaves that asset alone without a signal: every
\* configured asset is fetched, only assets with a signal are evaluated, and
\* when the asset loop ends every asset that has a signal has been scanned,
\* whichever other assets have none.
C20_FailedFetchSkipsThatAssetOnly ==
    /\ pc \in {"scan", "evaluate", "execute", "ledger_read", "ledger_write",
                "persist"}
          => /\ calls.signal = Len(config.assets)
             /\ Len(signals) = Len(config.assets)
    /\ pc \in {"evaluate", "execute", "ledger_read", "ledger_write"}
          => signals[asset_idx] # None
    /\ pc = "persist"
          => calls.scan = Cardinality({i \in 1..Len(signals) : signals[i] # None})

C20_Witness ==
    /\ pc = "evaluate"
    /\ asset_idx = 2
    /\ signals[1] = None
    /\ signals[2] # None
    /\ calls.scan = 1

\* C21 (as stated): each loop iteration sleeps and then runs its cycle, so a
\* cycle starts only right after a sleep.
C21_CycleOnlyAfterSleep ==
    [][now' # now => hist.since = "sleep"]_vars

\* C21 (amended): each loop iteration runs exactly one cycle and then sleeps:
\* a cycle starts only when none is in progress, right after the server start
\* or right after a sleep, and the loop sleeps only once the cycle it has
\* called has returned or raised, once per cycle.
C21_OneCycleThenSleep ==
    [][/\ now' # now
            => /\ now' = now + 1
               /\ pc = "cycle" /\ pc' \in {"signals", "returned"}
               /\ hist.since \in {"start", "sleep"}
       /\ (hist'.since = "sleep" /\ hist.since # "sleep")
            => /\ pc \in {"returned", "raised"} /\ pc' = "cycle"
               /\ hist.since = "cycle"
               /\ now' = now]_vars

C21_Witness ==
    /\ pc = "cycle"
    /\ now = 1
    /\ hist.since = "sleep"
    /\ ~hist.caught
    /\ load_state(state_file).last_run = Some(1)

\* C22: get_fast_markets returns its markets in descending order of time
\* remaining, an unknown time remaining counting as 0, and the markets that
\* run_cycle evaluates for the asset are the first 3 of that list (all of
\* them when there are fewer), so no market left out has more time remaining
\* than one that is evaluated.
C22_SortedAndTopThree ==
    fm_out # None =>
        LET out == fm_out[1]
            key(id) == IF Catalogue[id].left = None THEN 0
                       ELSE Catalogue[id].left[1]
        IN  /\ \A i, j \in DOMAIN out : i < j => key(out[i]) >= key(out[j])
            /\ Len(markets) = IF Len(out) < 3 THEN Len(out) ELSE 3
            /\ \A i \in DOMAIN markets : markets[i] = out[i]
            /\ \A i \in DOMAIN markets : \A j \in DOMAIN out :
                  j > Len(markets) => key(markets[i]) >= key(out[j])

C22_Witness ==
    /\ fm_out # None
    /\ fm_in[1].listing = <<8, 1, 2, 7>>
    /\ fm_out[1] = <<2, 1, 7, 8>>
    /\ markets = <<2, 1, 7>>

\* C23 (as stated): save_total_spent is atomic, so it never writes over a
\* total that another process has written since it read the file.
C23_SaveNeverOverwritesAReset ==
    ~hist.overwritten

\* C23 (amended): save_total_spent writes the total it read plus the amount
\* in one write of the file, after a separate read; with no other writer in
\* between, the file goes from old to old + amount, and the only write that
\* can land in between is a --reset, whose 0 is then written over.
C23_SaveWritesReadPlusAmount ==
    [][calls'.ledger = calls.ledger + 1
          => /\ pc = "ledger_write"
             /\ load_total_spent(spend_file') = current + trade_amount
             /\ current = load_total_spent(spend_file)
                   => load_total_spent(spend_file')
                         = load_total_spent(spend_file) + trade_amount
             /\ current # load_total_spent(spend_file)
                   => (resets > 0 /\ spend_file = Some(0) /\ hist'.overwritten)]_vars

C23_Witness ==
    /\ pc = "add_trade"
    /\ hist.overwritten
    /\ resets = 1
    /\ load_total_spent(spend_file) > trade_amount

\* C24: the direction of the signal is "up" exactly when the latest close is
\* above the oldest close of the window; equal closes (a momentum of zero)
\* and a lower latest close give "down".
C24_UpIffLatestCloseHigher ==
    (sig_out # None /\ sig_out[1] # None) =>
        LET signal == sig_out[1][1]
            price_now == sig_in[1].price_now
            price_then == sig_in[1].price_then
        IN  /\ signal.direction = "up" <=> price_now > price_then
            /\ signal.direction \in {"up", "down"}
            /\ price_now = price_then
                  => (signal.momentum_pct = 0 /\ signal.direction = "down")
            /\ price_now < price_then
                  => (signal.momentum_pct < 0 /\ signal.direction = "down")

C24_Witness ==
    /\ sig_out # None /\ sig_out[1] # None
    /\ sig_in[1].price_now = sig_in[1].price_then
    /\ sig_out[1][1].momentum_pct = 0
    /\ sig_out[1][1].direction = "down"

\* C25: once a run_cycle call has returned stopped = true and no --reset has
\* run since, every later run_cycle call returns stopped = true from its
\* budget check, without an execute_trade call and without a ledger write.
C25_StoppedIsAbsorbing ==
    (/\ hist.stopped_seen
     /\ pc \in {"signals", "scan", "evaluate", "execute", "ledger_read",
                 "ledger_write", "add_trade", "persist", "returned", "raised"})
    => /\ pc = "returned"
       /\ results.stopped
       /\ calls.exec = 0 /\ calls.ledger = 0

C25_Witness ==
    /\ hist.stopped_seen
    /\ pc = "returned"
    /\ results.stopped
    /\ now = 2
    /\ resets = 0
    /\ hist.untracked

C27_BudgetExhaustionIsReached ==
    <>(\/ pc = "returned" /\ results.stopped
       \/ cycle_without_trade)

C27_Witness ==
    /\ pc = "returned"
    /\ results.stopped
    /\ ~hist.untracked
    /\ now = 3
    /\ Len(load_state(state_file).trades) = 2
    /\ load_total_spent(spend_file) = config.max_total_spend

\* C28: a cycle that has raised is followed by the sleep and the next cycle,
\* with the persisted state as it was, or by the user's interrupt; the loop
\* ends by an interrupt only, which writes status = "stopped".
C28_RaisedCycleLeavesLoopRunning ==
    [][/\ pc = "raised"
            => \/ /\ pc' = "cycle"
                  /\ hist'.since = "sleep" /\ hist'.caught
                  /\ state_file' = state_file /\ spend_file' = spend_file
               \/ pc' = "exited"
       /\ (pc' = "exited" /\ pc # "exited")
            => /\ hist'.since = "interrupt"
               /\ load_state(state_file').status = "stopped"]_vars

C28_Witness ==
    /\ pc = "cycle"
    /\ now = 1
    /\ hist.since = "sleep"
    /\ hist.caught
    /\ load_state(state_file).status = "running"
    /\ load_state(state_file).last_run = None

====
